---- MODULE Spec2Model ----
(***************************************************************************)
(* A model of advanced-vector/vector.h: RawMemory<T> (an owner of one raw *)
(* block) and Vector<T> (a growable array built on it).                   *)
(*                                                                         *)
(* The heap is a set of blocks; a block is a sequence of slots; a slot is *)
(* uninitialized or holds an object (possibly a moved-from one).  Every   *)
(* handler of Vector is a function on a "world" record that threads the   *)
(* heap, the vectors, and the trace of what the call did (what it threw,  *)
(* how many elements it destroyed, whether it touched a slot it must      *)
(* not).  Indices are 0-based as in the source; TLA+ sequences are        *)
(* 1-based, so slot i of a block is element i + 1 of its sequence.        *)
(***************************************************************************)
EXTENDS Integers, Sequences, FiniteSets, TLC

\* ------------------------------------------------------------------ bounds

\* The longest vector: no call asks for more elements or more capacity.  (A
\* full vector that grows gets the capacity the code gives it.)
MaxLen == 3

\* The same where two vectors are followed together.
MaxLenTwo == 2

\* size_t arithmetic is modular.  The modulus is scaled down from 2^64 so
\* that the arithmetic stays small; it only has to exceed every
\* capacity.
SizeMod == 64

\* How many PushBack/PopBack calls the push/pop history of a vector follows.
MaxHist == 5

\* The largest capacity asked of Reserve where pushes follow it.
MaxReserve == 10

\* ----------------------------------------------------------- element type

\* The values an element can hold; T() is DefaultVal.
DefaultVal == 0
Values == {0, 1}

\* The element type T, by the two traits the source asks about
\* (is_nothrow_move_constructible_v<T>, is_copy_constructible_v<T>), and
\* whether any of its operations ever throws.
Types == [nothrowMove : BOOLEAN, copyable : BOOLEAN, throws : BOOLEAN]

Uninit == [st |-> "uninit", v |-> DefaultVal]
Obj(v) == [st |-> "live", v |-> v]
\* A moved-from object: alive (it must still be destroyed), value unspecified.
MovedFrom == [st |-> "moved", v |-> DefaultVal]

\* ------------------------------------------------------------------ state

Names == {"a", "b"}
\* The local Vector of a growing EmplaceBack/Emplace and of an assignment.
Tmp == "tmp"
\* nullptr
Null == 0
\* Each vector owns at most one block, and a call holds at most one more.
BlockIds == 1..(Cardinality(Names) + 1)

VARIABLES
    vec,      \* vec[x]: the Vector x: alive, data_.buffer_, data_.capacity_, size_
    mem,      \* mem[b]: the slots of block b, <<>> when b is not allocated
    ttype,    \* the element type's traits
    crashed,  \* the process died in undefined behaviour
    hist      \* the PushBack and PopBack calls on a, while it has seen no others

vars == <<vec, mem, ttype, crashed, hist>>

\* A default-constructed Vector / RawMemory.
EmptyVec == [alive |-> TRUE, data |-> Null, cap |-> 0, size |-> 0]
NoVec == [alive |-> FALSE, data |-> Null, cap |-> 0, size |-> 0]

\* An address: slot off of block blk.
NoRet == [blk |-> Null, off |-> 0]

\* A default-constructed RawMemory (the local new_data of Reserve).
NoRaw == [data |-> Null, cap |-> 0]

\* ------------------------------------------------------------- the world

\* The world a call starts in: the state, the exception to inject (fuel: the
\* fuel-th fallible element operation throws, 0: none), and the outcome
\* undefined behaviour takes in this run (o).  ticks counts the fallible
\* element operations the call has completed.
WorldOf(vs, m, f, o) ==
    [vec |-> vs @@ (Tmp :> NoVec), mem |-> m, fuel |-> f, o |-> o, ticks |-> 0,
     thrown |-> "none", abort |-> FALSE, ub |-> FALSE, destroyed |-> 0,
     xfers |-> 0, moves |-> 0, intact |-> TRUE, newFirst |-> TRUE,
     leaked |-> FALSE, heapElem |-> "none", path |-> "none", ret |-> NoRet,
     raw |-> NoRaw, before |-> <<>>]

\* The world a call on the current state starts in.
World(f, o) == WorldOf(vec, mem, f, o)

\* The vectors a call leaves.
Vecs(w) == [n \in Names |-> w.vec[n]]

\* What undefined behaviour can do: nothing visible (a trivial destructor run
\* on raw memory), or end the process.
Outcomes == {"noop", "abort"}

\* Undefined behaviour happened in w.
UB(w) == [w EXCEPT !.ub = TRUE, !.abort = (w.o = "abort")]

\* Whether an element operation of this kind can throw for the element type:
\* construction from the caller's arguments, copying, and default
\* construction can when T throws at all; moving cannot when T's moves are
\* noexcept.
CanThrow(kind) ==
    /\ ttype.throws
    /\ kind \in {"move", "moveassign"} => ~ttype.nothrowMove

Throws(w, kind) == CanThrow(kind) /\ w.fuel = 1

Tick(w, kind) ==
    IF CanThrow(kind)
    THEN [w EXCEPT !.fuel = IF @ > 0 THEN @ - 1 ELSE 0, !.ticks = @ + 1]
    ELSE w

Throw(w, kind) == [w EXCEPT !.fuel = 0, !.thrown = kind]

Ok(w) == w.thrown = "none" /\ ~w.abort

\* ------------------------------------------------------------- RawMemory

\* The block operator new returns: the lowest free one.
FreeBlock(w) == CHOOSE b \in BlockIds :
    /\ w.mem[b] = <<>>
    /\ \A c \in BlockIds : w.mem[c] = <<>> => b <= c

\* RawMemory::Allocate(n) into block b: n raw slots (nullptr for n = 0).
AllocatedBlock(w, n) == IF n # 0 THEN FreeBlock(w) ELSE Null

Allocate(w, b, n) ==
    IF w.abort \/ b = Null THEN w
    ELSE [w EXCEPT !.mem[b] = [i \in 1..n |-> Uninit]]

\* RawMemory::Deallocate(buf): operator delete; a no-op on nullptr.  The
\* objects still in the block are not destroyed: they are lost.
Deallocate(w, b) ==
    IF w.abort \/ b = Null THEN w
    ELSE IF w.mem[b] = <<>> THEN UB(w)
    ELSE [w EXCEPT !.mem[b] = <<>>,
                   !.leaked = @ \/ \E i \in 1..Len(w.mem[b]) : w.mem[b][i].st # "uninit"]

\* Whether slot i of block b exists and holds an object.
IsLive(w, b, i) ==
    /\ b # Null
    /\ i >= 0 /\ i < Len(w.mem[b])
    /\ w.mem[b][i + 1].st # "uninit"

InBlock(w, b, i) == b # Null /\ i >= 0 /\ i < Len(w.mem[b])

\* Whether slot i of block b exists and is raw memory.
IsRaw(w, b, i) ==
    /\ b # Null
    /\ i >= 0 /\ i < Len(w.mem[b])
    /\ w.mem[b][i + 1].st = "uninit"

\* ------------------------------------------------- element operations
\* Every operator below takes the world w it starts in and gives the world it
\* leaves; a call is the composition of its steps.

\* new (buffer + i) T(obj): placement construction of kind "args" (from the
\* caller's arguments), "copy", "move" or "default".  An object the slot
\* still holds is overwritten without its destructor having run.
ConstructAt(w, b, i, obj, kind) ==
    IF w.abort THEN w
    ELSE IF Throws(w, kind) THEN Throw(w, kind)
    ELSE IF ~InBlock(w, b, i) THEN UB(w)
    ELSE [Tick(w, kind) EXCEPT !.mem[b][i + 1] = obj,
                               !.leaked = @ \/ ~IsRaw(w, b, i)]

\* buffer[i] = obj: assignment to a live object, "copyassign" or "moveassign".
AssignAt(w, b, i, obj, kind) ==
    IF w.abort THEN w
    ELSE IF Throws(w, kind) THEN Throw(w, kind)
    ELSE IF ~IsLive(w, b, i) THEN UB(w)
    ELSE [Tick(w, kind) EXCEPT !.mem[b][i + 1] = obj]

\* The destructor of the object in slot i of block b.
DestroyAt(w, b, i) ==
    IF w.abort THEN w
    ELSE IF ~IsLive(w, b, i) THEN UB(w)
    ELSE [w EXCEPT !.mem[b][i + 1] = Uninit, !.destroyed = @ + 1]

\* std::destroy_n(buffer + first, n).  Once it has run past the block every
\* further slot is outside it as well.
RECURSIVE destroy_n(_, _, _, _)
destroy_n(w, b, first, n) ==
    IF w.abort \/ n = 0 THEN w
    ELSE IF b = Null \/ first >= Len(w.mem[b]) THEN UB(w)
    ELSE destroy_n(DestroyAt(w, b, first), b, first + 1, n - 1)

\* What a copy or a move that went through (w, entered with undefined
\* behaviour flag ub0) leaves of its source: a move leaves it moved-from.
AfterXfer(w, ub0, mode, sb, si) ==
    IF ~Ok(w) \/ w.ub # ub0 THEN w
    ELSE [w EXCEPT !.xfers = @ + 1,
                   !.moves = IF mode = "move" THEN @ + 1 ELSE @,
                   !.mem[sb][si + 1] = IF mode = "move" THEN MovedFrom ELSE @]

\* Constructs slot di of block db from slot si of block sb, by "copy" or by
\* "move".
XferConstruct(w, mode, sb, si, db, di) ==
    IF w.abort THEN w
    ELSE IF Throws(w, mode) THEN Throw(w, mode)
    ELSE IF ~IsLive(w, sb, si) THEN UB(w)
    ELSE AfterXfer(ConstructAt(w, db, di, w.mem[sb][si + 1], mode), w.ub, mode, sb, si)

\* std::uninitialized_copy_n / std::uninitialized_move_n (src + si, n,
\* dst + di), k elements done: element by element; when one throws, the ones
\* already constructed in the destination are destroyed and the exception
\* goes on.
RECURSIVE UninitializedN(_, _, _, _, _, _, _, _)
UninitializedN(w, mode, sb, si, n, db, di, k) ==
    IF w.thrown # "none" THEN destroy_n(w, db, di, k - 1)
    ELSE IF w.abort \/ k = n THEN w
    ELSE UninitializedN(XferConstruct(w, mode, sb, si + k, db, di + k),
                        mode, sb, si, n, db, di, k + 1)

uninitialized_copy_n(w, sb, si, n, db, di) ==
    IF ~Ok(w) THEN w ELSE UninitializedN(w, "copy", sb, si, n, db, di, 0)

uninitialized_move_n(w, sb, si, n, db, di) ==
    IF ~Ok(w) THEN w ELSE UninitializedN(w, "move", sb, si, n, db, di, 0)

\* std::uninitialized_value_construct_n(buffer + first, n), k elements done.
RECURSIVE ValueConstructN(_, _, _, _, _)
ValueConstructN(w, b, first, n, k) ==
    IF w.thrown # "none" THEN destroy_n(w, b, first, k - 1)
    ELSE IF w.abort \/ k = n THEN w
    ELSE ValueConstructN(ConstructAt(w, b, first + k, Obj(DefaultVal), "default"),
                         b, first, n, k + 1)

uninitialized_value_construct_n(w, b, first, n) ==
    IF ~Ok(w) THEN w ELSE ValueConstructN(w, b, first, n, 0)

\* What a move assignment that went through leaves of its source, slot src.
AfterMoveAssign(w, ub0, b, src) ==
    IF ~Ok(w) \/ w.ub # ub0 THEN w ELSE [w EXCEPT !.mem[b][src + 1] = MovedFrom]

\* buffer[dst] = std::move(buffer[src]).
MoveAssignSlot(w, b, dst, src) ==
    IF ~IsLive(w, b, src) THEN UB(w)
    ELSE AfterMoveAssign(AssignAt(w, b, dst, w.mem[b][src + 1], "moveassign"), w.ub, b, src)

\* A faulty UseMove: a type that cannot be copied is not taken into account.
UseMoveIfNothrow(t) == t.nothrowMove

\* if constexpr (is_nothrow_move_constructible_v<T> || !is_copy_constructible_v<T>)
UseMove(t) == t.nothrowMove \/ ~t.copyable

\* size_t arithmetic.
SizeSub(m, n) == (m - n) % SizeMod

SizeMul(m, n) == (m * n) % SizeMod

\* The objects in slots [first, first + n) of block b.
Slots(w, b, first, n) == [k \in 1..n |-> w.mem[b][first + k]]

\* The elements of x in world w.
ElemsIn(w, x) ==
    [i \in 1..w.vec[x].size |->
        IF w.vec[x].data # Null /\ i <= Len(w.mem[w.vec[x].data])
        THEN w.mem[w.vec[x].data][i] ELSE Uninit]

\* Whether the n objects of block b are still those the call found (before),
\* noted when they are about to be destroyed.
MarkIntact(w, b, n) ==
    IF ~Ok(w) THEN w ELSE [w EXCEPT !.intact = (Slots(w, b, 0, n) = w.before)]

SetPath(w, p) == [w EXCEPT !.path = p]

\* ---------------------------------------------------------------- Vector

\* Vector::Swap: data_.Swap(other.data_) and std::swap(size_, other.size_).
Swap(w, x, y) ==
    IF ~Ok(w) THEN w
    ELSE [w EXCEPT !.vec[x].data = w.vec[y].data, !.vec[x].cap = w.vec[y].cap,
                   !.vec[x].size = w.vec[y].size,
                   !.vec[y].data = w.vec[x].data, !.vec[y].cap = w.vec[x].cap,
                   !.vec[y].size = w.vec[x].size]

\* RawMemory::~RawMemory of x's member data_, which ends x.
DestructorRelease(w, x, b) ==
    IF w.abort THEN w ELSE [Deallocate(w, b) EXCEPT !.vec[x] = NoVec]

\* Vector::~Vector, then its member's destructor.  It runs on return and on
\* an exception alike.
Destructor(w, x) ==
    DestructorRelease(destroy_n(w, w.vec[x].data, 0, w.vec[x].size), x, w.vec[x].data)

\* Reserve: RawMemory<T> new_data(new_capacity);
ReserveAllocate(w, x, new_capacity) ==
    [Allocate(w, AllocatedBlock(w, new_capacity), new_capacity)
     EXCEPT !.raw = [data |-> AllocatedBlock(w, new_capacity), cap |-> new_capacity],
            !.before = ElemsIn(w, x), !.path = "grow"]

\* Reserve: the elements go to new_data, by move or by copy.
ReserveRelocate(w, x) ==
    IF UseMove(ttype)
    THEN uninitialized_move_n(w, w.vec[x].data, 0, w.vec[x].size, w.raw.data, 0)
    ELSE uninitialized_copy_n(w, w.vec[x].data, 0, w.vec[x].size, w.raw.data, 0)

\* Reserve: data_.Swap(new_data); and new_data, now the old block, is released
\* as it leaves scope.
ReserveSwap(w, x) ==
    IF w.abort THEN w
    ELSE Deallocate([w EXCEPT !.vec[x].data = w.raw.data, !.vec[x].cap = w.raw.cap,
                              !.raw = NoRaw],
                    w.vec[x].data)

\* Reserve: std::destroy_n(data_.GetAddress(), size_) and the swap; when the
\* relocation threw, only new_data is released.
ReserveFinish(w, x) ==
    IF w.abort THEN w
    ELSE IF w.thrown # "none" THEN [Deallocate(w, w.raw.data) EXCEPT !.raw = NoRaw]
    ELSE ReserveSwap(destroy_n(MarkIntact(w, w.vec[x].data, w.vec[x].size),
                               w.vec[x].data, 0, w.vec[x].size), x)

\* A faulty Reserve: it reallocates whatever the capacity asked for.
ReserveAlways(w, x, new_capacity) ==
    IF ~Ok(w) THEN w
    ELSE ReserveFinish(ReserveRelocate(ReserveAllocate(w, x, new_capacity), x), x)

\* Vector::Reserve(new_capacity).
Reserve(w, x, new_capacity) ==
    IF ~Ok(w) \/ new_capacity <= w.vec[x].cap THEN w
    ELSE ReserveFinish(ReserveRelocate(ReserveAllocate(w, x, new_capacity), x), x)

\* --size_
DecSize(w, x) == IF ~Ok(w) THEN w ELSE [w EXCEPT !.vec[x].size = SizeSub(@, 1)]

\* ++size_
IncSize(w, x) == IF ~Ok(w) THEN w ELSE [w EXCEPT !.vec[x].size = @ + 1]

\* A faulty PopBack: the first element is destroyed instead of the last.
PopBackFirst(w, x) ==
    IF ~Ok(w) THEN w ELSE DecSize(destroy_n(w, w.vec[x].data, 0, 1), x)

\* Vector::PopBack.
PopBack(w, x) ==
    IF ~Ok(w) THEN w
    ELSE DecSize(destroy_n(w, w.vec[x].data, SizeSub(w.vec[x].size, 1), 1), x)

\* A faulty GrowTo: room for one more element only.
GrowByOne(n) == n + 1

\* size_ == 0 ? 1 : size_ * 2
GrowTo(n) == IF n = 0 THEN 1 ELSE SizeMul(n, 2)

\* EmplaceBack and Emplace, growing: Vector new_vector;
\* new_vector.Reserve(size_ == 0 ? 1 : size_ * 2); new_vector.size_ = size_;
NewVector(w, x) ==
    [Reserve([w EXCEPT !.vec[Tmp] = EmptyVec], Tmp, GrowTo(w.vec[x].size))
     EXCEPT !.vec[Tmp].size = w.vec[x].size, !.before = ElemsIn(w, x),
            !.path = "grow"]

\* EmplaceBack and Emplace, growing: elem_pointer = new (new_vector.data_ + index)
\* T(args), an element of value v.
GrowConstruct(w, index, v) ==
    [ConstructAt(w, w.vec[Tmp].data, index, Obj(v), "args")
     EXCEPT !.newFirst = (w.xfers = 0), !.ret = [blk |-> w.vec[Tmp].data, off |-> index]]

\* EmplaceBack, growing: the elements go to new_vector, by move or by copy.
EmplaceBackRelocate(w, x) ==
    IF UseMove(ttype)
    THEN uninitialized_move_n(w, w.vec[x].data, 0, w.vec[x].size, w.vec[Tmp].data, 0)
    ELSE uninitialized_copy_n(w, w.vec[x].data, 0, w.vec[x].size, w.vec[Tmp].data, 0)

\* EmplaceBack and Emplace, growing: Swap(new_vector); new_vector then holds
\* the old block and the old elements.
GrowSwap(w, x) == MarkIntact(Swap(w, x, Tmp), w.vec[x].data, w.vec[x].size)

\* EmplaceBack and Emplace, growing: new_vector leaves scope, by the end of
\* the branch or by an exception; then ++size_.
GrowEnd(w, x) == IncSize(Destructor(w, Tmp), x)

\* EmplaceBack with room: elem_pointer = new (data_ + size_) T(args); ++size_.
EmplaceBackRoom(w, x, v) ==
    IncSize([ConstructAt(SetPath(w, "room"), w.vec[x].data, w.vec[x].size, Obj(v), "args")
             EXCEPT !.ret = [blk |-> w.vec[x].data, off |-> w.vec[x].size]], x)

\* A faulty EmplaceBack: it grows one element before the block is full.
EmplaceBackGrowEarly(w, x, v) ==
    IF ~Ok(w) THEN w
    ELSE IF w.vec[x].size + 1 >= w.vec[x].cap
    THEN GrowEnd(GrowSwap(EmplaceBackRelocate(GrowConstruct(NewVector(w, x), w.vec[x].size, v),
                                              x), x), x)
    ELSE EmplaceBackRoom(w, x, v)

\* Vector::EmplaceBack(args), the arguments making an element of value v.
EmplaceBack(w, x, v) ==
    IF ~Ok(w) THEN w
    ELSE IF w.vec[x].size = w.vec[x].cap
    THEN GrowEnd(GrowSwap(EmplaceBackRelocate(GrowConstruct(NewVector(w, x), w.vec[x].size, v),
                                              x), x), x)
    ELSE EmplaceBackRoom(w, x, v)

\* std::move_backward(buffer + first, buffer + last, buffer + d_last): from
\* the last element to the first, each move-assigned one further up.
RECURSIVE MoveBackward(_, _, _, _, _)
MoveBackward(w, b, first, last, d_last) ==
    IF ~Ok(w) \/ last <= first THEN w
    ELSE MoveBackward(MoveAssignSlot(w, b, d_last - 1, last - 1), b, first, last - 1, d_last - 1)

\* std::move(buffer + first, buffer + last, buffer + d_first): from the first
\* element to the last, each move-assigned down.
RECURSIVE MoveForward(_, _, _, _, _)
MoveForward(w, b, first, last, d_first) ==
    IF ~Ok(w) \/ last <= first THEN w
    ELSE MoveForward(MoveAssignSlot(w, b, d_first, first), b, first + 1, last, d_first + 1)

\* Emplace, growing: the elements before index and those from index on go to
\* new_vector, around the new element.
EmplaceRelocateHead(w, x, index) ==
    IF UseMove(ttype)
    THEN uninitialized_move_n(w, w.vec[x].data, 0, index, w.vec[Tmp].data, 0)
    ELSE uninitialized_copy_n(w, w.vec[x].data, 0, index, w.vec[Tmp].data, 0)

\* A faulty EmplaceRelocateTail: the tail lands on the new element's slot.
EmplaceRelocateTailAtIndex(w, x, index) ==
    IF UseMove(ttype)
    THEN uninitialized_move_n(w, w.vec[x].data, index, SizeSub(w.vec[x].size, index),
                              w.vec[Tmp].data, index)
    ELSE uninitialized_copy_n(w, w.vec[x].data, index, SizeSub(w.vec[x].size, index),
                              w.vec[Tmp].data, index)

EmplaceRelocateTail(w, x, index) ==
    IF UseMove(ttype)
    THEN uninitialized_move_n(w, w.vec[x].data, index, SizeSub(w.vec[x].size, index),
                              w.vec[Tmp].data, index + 1)
    ELSE uninitialized_copy_n(w, w.vec[x].data, index, SizeSub(w.vec[x].size, index),
                              w.vec[Tmp].data, index + 1)

\* Emplace with room: elem_pointer = new T(args), an object of value v of its
\* own on the heap.
NewElem(w, v) ==
    IF Throws(w, "args") THEN Throw(w, "args")
    ELSE [Tick(SetPath(w, "shift"), "args") EXCEPT !.heapElem = "live"]

\* Emplace with room: new (end()) T(std::move(*(end() - 1)));
ShiftLast(w, x) ==
    IF ~Ok(w) THEN w
    ELSE XferConstruct(w, "move", w.vec[x].data, SizeSub(w.vec[x].size, 1),
                       w.vec[x].data, w.vec[x].size)

\* A faulty AssignElem: the new value lands one slot too far.
AssignElemNext(w, x, index, v) ==
    IF ~Ok(w) THEN w
    ELSE [AssignAt(w, w.vec[x].data, index + 1, Obj(v), "moveassign") EXCEPT !.heapElem = "moved"]

\* Emplace with room: std::move(elem_pointer, elem_pointer + 1, begin() + index);
AssignElem(w, x, index, v) ==
    IF ~Ok(w) THEN w
    ELSE [AssignAt(w, w.vec[x].data, index, Obj(v), "moveassign") EXCEPT !.heapElem = "moved"]

\* Emplace with room: std::destroy_n(elem_pointer, 1); the object's memory is
\* not returned (//delete elem_pointer;).
DestroyElem(w) ==
    IF ~Ok(w) THEN w ELSE [w EXCEPT !.heapElem = "raw", !.destroyed = @ + 1]

\* Emplace with room, index < size_.
EmplaceShift(w, x, index, v) ==
    IncSize(DestroyElem(AssignElem(
        MoveBackward(ShiftLast(NewElem(w, v), x), w.vec[x].data, index,
                     SizeSub(w.vec[x].size, 1), w.vec[x].size),
        x, index, v)), x)

\* Emplace, growing, index < size_.
EmplaceGrow(w, x, index, v) ==
    GrowEnd(GrowSwap(EmplaceRelocateTail(EmplaceRelocateHead(
        GrowConstruct(NewVector(w, x), index, v), x, index), x, index), x), x)

\* return begin() + index;
ReturnAt(w, x, index) ==
    IF ~Ok(w) THEN w ELSE [w EXCEPT !.ret = [blk |-> w.vec[x].data, off |-> index]]

\* Vector::Emplace(begin() + index, args), the arguments making an element of
\* value v; Insert is Emplace.
Emplace(w, x, index, v) ==
    IF ~Ok(w) THEN w
    ELSE ReturnAt(IF index = w.vec[x].size THEN EmplaceBack(w, x, v)
                  ELSE IF w.vec[x].size = w.vec[x].cap THEN EmplaceGrow(w, x, index, v)
                  ELSE EmplaceShift(w, x, index, v),
                  x, index)

\* A faulty Erase: the elements after index are not shifted.
EraseNoShift(w, x, index) ==
    ReturnAt(PopBack(SetPath(w, "shift"), x), x, index)

\* Vector::Erase(begin() + index).
Erase(w, x, index) ==
    ReturnAt(PopBack(MoveForward(SetPath(w, "shift"), w.vec[x].data, index + 1,
                                 w.vec[x].size, index), x),
             x, index)

\* x[index] = v: Vector::operator[] and T's assignment to the element.
WriteAt(w, x, index, v) ==
    IF ~Ok(w) THEN w
    ELSE AssignAt(SetPath(w, "write"), w.vec[x].data, index, Obj(v), "copyassign")

\* size_ = new_size;
SetSize(w, x, new_size) ==
    IF ~Ok(w) THEN w ELSE [w EXCEPT !.vec[x].size = new_size]

\* A faulty ResizeConstruct: the last new element is not constructed.
ResizeConstructOneLess(w, x, new_size) ==
    IF ~Ok(w) THEN w
    ELSE uninitialized_value_construct_n(SetPath(w, "extend"), w.vec[x].data, w.vec[x].size,
                                         SizeSub(SizeSub(new_size, w.vec[x].size), 1))

\* Resize, growing: the value-constructed tail.
ResizeConstruct(w, x, new_size) ==
    IF ~Ok(w) THEN w
    ELSE uninitialized_value_construct_n(SetPath(w, "extend"), w.vec[x].data, w.vec[x].size,
                                         SizeSub(new_size, w.vec[x].size))

\* Vector::Resize(new_size).
Resize(w, x, new_size) ==
    IF ~Ok(w) THEN w
    ELSE IF new_size < w.vec[x].size
    THEN SetSize(destroy_n(SetPath(w, "shrink"), w.vec[x].data, new_size,
                           SizeSub(w.vec[x].size, new_size)), x, new_size)
    ELSE IF new_size > w.vec[x].size
    THEN SetSize(ResizeConstruct(Reserve(w, x, new_size), x, new_size), x, new_size)
    ELSE SetPath(w, "same")

\* A constructor's body is over: the members data_(b, n) and size_(n) make x;
\* when the body threw, the member data_ is released.
Constructed(w, x, b, n) ==
    IF w.abort THEN w
    ELSE IF w.thrown # "none" THEN Deallocate(w, b)
    ELSE [w EXCEPT !.vec[x] = [alive |-> TRUE, data |-> b, cap |-> n, size |-> n]]

\* Vector::Vector(size).
VectorOfSize(w, x, size) ==
    Constructed(uninitialized_value_construct_n(
                    Allocate(w, AllocatedBlock(w, size), size), AllocatedBlock(w, size), 0, size),
                x, AllocatedBlock(w, size), size)

\* A faulty copy constructor: the new Vector takes other's block for its own.
CopyConstructShallow(w, x, other) ==
    IF ~Ok(w) THEN w
    ELSE [w EXCEPT !.vec[x] = [alive |-> TRUE, data |-> w.vec[other].data,
                               cap |-> w.vec[other].size, size |-> w.vec[other].size]]

\* Vector::Vector(const Vector& other).
CopyConstruct(w, x, other) ==
    Constructed(uninitialized_copy_n(
                    Allocate(w, AllocatedBlock(w, w.vec[other].size), w.vec[other].size),
                    w.vec[other].data, 0, w.vec[other].size,
                    AllocatedBlock(w, w.vec[other].size), 0),
                x, AllocatedBlock(w, w.vec[other].size), w.vec[other].size)

\* A faulty move constructor: other.size_ is not reset.
MoveConstructKeepSize(w, x, other) ==
    IF ~Ok(w) THEN w
    ELSE [w EXCEPT !.vec[x] = [alive |-> TRUE, data |-> w.vec[other].data,
                               cap |-> w.vec[other].cap, size |-> w.vec[other].size],
                   !.vec[other].data = Null, !.vec[other].cap = 0]

\* Vector::Vector(Vector&& other) with RawMemory::RawMemory(RawMemory&& other).
MoveConstruct(w, x, other) ==
    IF ~Ok(w) THEN w
    ELSE [w EXCEPT !.vec[x] = [alive |-> TRUE, data |-> w.vec[other].data,
                               cap |-> w.vec[other].cap, size |-> w.vec[other].size],
                   !.vec[other].data = Null, !.vec[other].cap = 0, !.vec[other].size = 0]

\* for (size_t i = 0; i != n; ++i) data_[i] = rhs.data_[i];  from i on.
RECURSIVE CopyAssignLoop(_, _, _, _, _)
CopyAssignLoop(w, db, sb, i, n) ==
    IF ~Ok(w) \/ i = n THEN w
    ELSE IF ~IsLive(w, sb, i) THEN UB(w)
    ELSE CopyAssignLoop(AssignAt(w, db, i, w.mem[sb][i + 1], "copyassign"), db, sb, i + 1, n)

\* Copy assignment with rhs.size_ > data_.Capacity(): Swap(rhs_copy); and
\* rhs_copy leaves scope.
SwapWithCopy(w, x) ==
    IF ~Ok(w) THEN w ELSE Destructor(Swap(w, x, Tmp), Tmp)

\* A faulty CopyAssignDestroy: size_ is not updated.
CopyAssignDestroyKeepSize(w, x, rhs) ==
    IF ~Ok(w) THEN w
    ELSE destroy_n(w, w.vec[x].data, w.vec[rhs].size,
                   SizeSub(w.vec[x].size, w.vec[rhs].size))

\* Copy assignment with rhs.size_ < size_: the excess tail is destroyed.
CopyAssignDestroy(w, x, rhs) ==
    IF ~Ok(w) THEN w
    ELSE SetSize(destroy_n(w, w.vec[x].data, w.vec[rhs].size,
                           SizeSub(w.vec[x].size, w.vec[rhs].size)), x, w.vec[rhs].size)

\* Copy assignment with rhs.size_ >= size_: the rest of rhs is copy-constructed.
CopyAssignExtend(w, x, rhs) ==
    IF ~Ok(w) THEN w
    ELSE SetSize(uninitialized_copy_n(w, w.vec[rhs].data, w.vec[x].size,
                                      SizeSub(w.vec[rhs].size, w.vec[x].size),
                                      w.vec[x].data, w.vec[x].size), x, w.vec[rhs].size)

\* A faulty copy assignment: it always copies rhs and swaps.
CopyAssignAlwaysFresh(w, x, rhs) ==
    IF ~Ok(w) THEN w
    ELSE IF x = rhs THEN SetPath(w, "self")
    ELSE SwapWithCopy(CopyConstruct(SetPath(w, "realloc"), Tmp, rhs), x)

\* Vector::operator=(const Vector& rhs).
CopyAssign(w, x, rhs) ==
    IF ~Ok(w) THEN w
    ELSE IF x = rhs THEN SetPath(w, "self")
    ELSE IF w.vec[rhs].size > w.vec[x].cap
    THEN SwapWithCopy(CopyConstruct(SetPath(w, "realloc"), Tmp, rhs), x)
    ELSE IF w.vec[rhs].size < w.vec[x].size
    THEN CopyAssignDestroy(CopyAssignLoop(SetPath(w, "shrink"), w.vec[x].data, w.vec[rhs].data,
                                          0, w.vec[rhs].size), x, rhs)
    ELSE CopyAssignExtend(CopyAssignLoop(SetPath(w, "extend"), w.vec[x].data, w.vec[rhs].data,
                                         0, w.vec[x].size), x, rhs)

\* Move assignment with rhs.size_ < size_, after Swap(rhs):
\* std::destroy_n(data_.GetAddress() + rhs.size_, size_ - rhs.size_), read
\* from the sizes the swap left.
MoveAssignDestroy(w, x, rhs) ==
    destroy_n(w, w.vec[x].data, w.vec[rhs].size, SizeSub(w.vec[x].size, w.vec[rhs].size))

\* Vector::operator=(Vector&& rhs).
MoveAssign(w, x, rhs) ==
    IF ~Ok(w) THEN w
    ELSE IF x = rhs THEN SetPath(w, "self")
    ELSE IF w.vec[rhs].size > w.vec[x].cap
    THEN SwapWithCopy(MoveConstruct(SetPath(w, "realloc"), Tmp, rhs), x)
    ELSE IF w.vec[rhs].size < w.vec[x].size
    THEN MoveAssignDestroy(Swap(SetPath(w, "shrink"), x, rhs), x, rhs)
    ELSE Swap(SetPath(w, "extend"), x, rhs)

\* ------------------------------------------------------------ observers

\* Vector::Size, Vector::Capacity, Vector::begin.
Size(x) == vec[x].size

Capacity(x) == vec[x].cap

Begin(x) == vec[x].data

\* The slots of x's block, <<>> when it has none.
Block(x) == IF vec[x].data = Null THEN <<>> ELSE mem[vec[x].data]

\* The elements read through operator[] for 0 <= i < Size().
Elems(x) == [i \in 1..vec[x].size |-> Block(x)[i]]

\* ------------------------------------------------------------- histories

NoHist == [on |-> FALSE, pushes |-> 0, pops |-> 0, expect |-> <<>>]
NewHist == [on |-> TRUE, pushes |-> 0, pops |-> 0, expect |-> <<>>]

\* The push/pop history of a after a call op on x that ended in world w: kept
\* for as long as a sees only PushBack and PopBack calls that return.
HistAfter(w, op, x, v) ==
    IF x # "a" \/ ~hist.on THEN hist
    ELSE IF ~Ok(w) THEN NoHist
    ELSE IF op = "PushBack"
         THEN [hist EXCEPT !.pushes = @ + 1, !.expect = Append(@, Obj(v))]
    ELSE IF op = "PopBack"
         THEN [hist EXCEPT !.pops = @ + 1, !.expect = SubSeq(@, 1, Len(@) - 1)]
    ELSE NoHist

\* The call op on x ended in world w: the new state.
Commit(w, op, x, v) ==
    /\ vec' = Vecs(w)
    /\ mem' = w.mem
    /\ crashed' = w.abort
    /\ hist' = HistAfter(w, op, x, v)
    /\ UNCHANGED ttype

\* The exceptions a call can meet: none (0), or one thrown by the f-th of the
\* fallible element operations that w, the call run without one, performs.
FailsOf(w) == 0..w.ticks

\* The outcomes a call has: when it runs into undefined behaviour, each of
\* Outcomes; otherwise the one the code defines.
OutcomesOf(w) == IF w.ub THEN Outcomes ELSE {"noop"}

\* ---------------------------------------------------------------- calls

\* Vector x;
CallDefaultConstruct(x) ==
    /\ ~crashed /\ ~vec[x].alive
    /\ Commit([World(0, "noop") EXCEPT !.vec[x] = EmptyVec], "DefaultConstruct", x, DefaultVal)

\* Vector x(n);
CallVectorOfSize(x, n) ==
    /\ ~crashed /\ ~vec[x].alive
    /\ \E f \in FailsOf(VectorOfSize(World(0, "noop"), x, n)) :
       \E o \in OutcomesOf(VectorOfSize(World(f, "noop"), x, n)) :
          Commit(VectorOfSize(World(f, o), x, n), "VectorOfSize", x, DefaultVal)

\* Vector x(y);
CallCopyConstruct(x, y) ==
    /\ ~crashed /\ ~vec[x].alive /\ vec[y].alive /\ ttype.copyable
    /\ \E f \in FailsOf(CopyConstruct(World(0, "noop"), x, y)) :
       \E o \in OutcomesOf(CopyConstruct(World(f, "noop"), x, y)) :
          Commit(CopyConstruct(World(f, o), x, y), "CopyConstruct", x, DefaultVal)

\* Vector x(std::move(y));
CallMoveConstruct(x, y) ==
    /\ ~crashed /\ ~vec[x].alive /\ vec[y].alive
    /\ Commit(MoveConstruct(World(0, "noop"), x, y), "MoveConstruct", x, DefaultVal)

\* x goes out of scope.
CallDestructor(x) ==
    /\ ~crashed /\ vec[x].alive
    /\ \E o \in OutcomesOf(Destructor(World(0, "noop"), x)) :
          Commit(Destructor(World(0, o), x), "Destructor", x, DefaultVal)

\* x = y;
CallCopyAssign(x, y) ==
    /\ ~crashed /\ vec[x].alive /\ vec[y].alive /\ ttype.copyable
    /\ \E f \in FailsOf(CopyAssign(World(0, "noop"), x, y)) :
       \E o \in OutcomesOf(CopyAssign(World(f, "noop"), x, y)) :
          Commit(CopyAssign(World(f, o), x, y), "CopyAssign", x, DefaultVal)

\* x = std::move(y);
CallMoveAssign(x, y) ==
    /\ ~crashed /\ vec[x].alive /\ vec[y].alive
    /\ \E o \in OutcomesOf(MoveAssign(World(0, "noop"), x, y)) :
          Commit(MoveAssign(World(0, o), x, y), "MoveAssign", x, DefaultVal)

\* x.Swap(y);
CallSwap(x, y) ==
    /\ ~crashed /\ vec[x].alive /\ vec[y].alive
    /\ Commit(Swap(World(0, "noop"), x, y), "Swap", x, DefaultVal)

\* x.Reserve(n);
CallReserve(x, n) ==
    /\ ~crashed /\ vec[x].alive
    /\ \E f \in FailsOf(Reserve(World(0, "noop"), x, n)) :
       \E o \in OutcomesOf(Reserve(World(f, "noop"), x, n)) :
          Commit(Reserve(World(f, o), x, n), "Reserve", x, DefaultVal)

\* x.Resize(n);
CallResize(x, n) ==
    /\ ~crashed /\ vec[x].alive
    /\ \E f \in FailsOf(Resize(World(0, "noop"), x, n)) :
       \E o \in OutcomesOf(Resize(World(f, "noop"), x, n)) :
          Commit(Resize(World(f, o), x, n), "Resize", x, DefaultVal)

\* x.PushBack(v); or x.EmplaceBack(args);
CallPushBack(x, v) ==
    /\ ~crashed /\ vec[x].alive
    /\ \E f \in FailsOf(EmplaceBack(World(0, "noop"), x, v)) :
       \E o \in OutcomesOf(EmplaceBack(World(f, "noop"), x, v)) :
          Commit(EmplaceBack(World(f, o), x, v), "PushBack", x, v)

\* x.PopBack(); its precondition is Size() > 0.
CallPopBack(x) ==
    /\ ~crashed /\ vec[x].alive
    /\ vec[x].size > 0
    /\ \E o \in OutcomesOf(PopBack(World(0, "noop"), x)) :
          Commit(PopBack(World(0, o), x), "PopBack", x, DefaultVal)

\* x.Insert(x.begin() + i, v); or x.Emplace(x.begin() + i, args); its
\* precondition is 0 <= i <= Size().
CallInsert(x, i, v) ==
    /\ ~crashed /\ vec[x].alive
    /\ i <= vec[x].size
    /\ \E f \in FailsOf(Emplace(World(0, "noop"), x, i, v)) :
       \E o \in OutcomesOf(Emplace(World(f, "noop"), x, i, v)) :
          Commit(Emplace(World(f, o), x, i, v), "Insert", x, v)

\* x.Erase(x.begin() + i); its precondition is 0 <= i < Size().
CallErase(x, i) ==
    /\ ~crashed /\ vec[x].alive
    /\ i < vec[x].size
    /\ \E f \in FailsOf(Erase(World(0, "noop"), x, i)) :
       \E o \in OutcomesOf(Erase(World(f, "noop"), x, i)) :
          Commit(Erase(World(f, o), x, i), "Erase", x, DefaultVal)

\* x[i] = v; its precondition is 0 <= i < Size().
CallWrite(x, i, v) ==
    /\ ~crashed /\ vec[x].alive
    /\ i < vec[x].size
    /\ \E f \in FailsOf(WriteAt(World(0, "noop"), x, i, v)) :
       \E o \in OutcomesOf(WriteAt(World(f, "noop"), x, i, v)) :
          Commit(WriteAt(World(f, o), x, i, v), "Write", x, v)

\* ------------------------------------------------------- specifications

\* One Vector, a, default-constructed; the element type is one of ts.
InitWith(ts, h) ==
    /\ ttype \in ts
    /\ vec = [n \in Names |-> IF n = "a" THEN EmptyVec ELSE NoVec]
    /\ mem = [b \in BlockIds |-> <<>>]
    /\ crashed = FALSE
    /\ hist = h

\* Spec: every call on one Vector, for every element type, with every
\* exception the type can throw.
Init == InitWith(Types, NoHist)

Next ==
    \/ CallDefaultConstruct("a")
    \/ \E n \in 0..MaxLen : CallVectorOfSize("a", n)
    \/ CallDestructor("a")
    \/ CallCopyAssign("a", "a")
    \/ CallMoveAssign("a", "a")
    \/ \E n \in 0..MaxLen : CallReserve("a", n)
    \/ \E n \in 0..MaxLen : CallResize("a", n)
    \/ \E v \in Values : vec["a"].size < MaxLen /\ CallPushBack("a", v)
    \/ CallPopBack("a")
    \/ \E i \in 0..MaxLen, v \in Values : vec["a"].size < MaxLen /\ CallInsert("a", i, v)
    \/ \E i \in 0..MaxLen : CallErase("a", i)
    \/ \E i \in 0..MaxLen, v \in Values : CallWrite("a", i, v)

Spec == Init /\ [][Next]_vars

\* SpecTwo: every call on two Vectors, a and b, for the copyable element types
\* whose operations do not throw.
InitTwo == InitWith({t \in Types : t.copyable /\ ~t.throws}, NoHist)

NextTwo ==
    \E x \in Names :
        \/ CallDefaultConstruct(x)
        \/ \E n \in 0..MaxLenTwo : CallVectorOfSize(x, n)
        \/ \E y \in Names \ {x} : CallCopyConstruct(x, y)
        \/ \E y \in Names \ {x} : CallMoveConstruct(x, y)
        \/ CallDestructor(x)
        \/ \E y \in Names : CallCopyAssign(x, y)
        \/ \E y \in Names : CallMoveAssign(x, y)
        \/ \E y \in Names \ {x} : CallSwap(x, y)
        \/ \E n \in 0..MaxLenTwo : CallReserve(x, n)
        \/ \E n \in 0..MaxLenTwo : CallResize(x, n)
        \/ \E v \in Values : vec[x].size < MaxLenTwo /\ CallPushBack(x, v)
        \/ CallPopBack(x)
        \/ \E i \in 0..MaxLenTwo, v \in Values : vec[x].size < MaxLenTwo /\ CallInsert(x, i, v)
        \/ \E i \in 0..MaxLenTwo : CallErase(x, i)
        \/ \E i \in 0..MaxLenTwo, v \in Values : CallWrite(x, i, v)

SpecTwo == InitTwo /\ [][NextTwo]_vars

\* SpecSource: every call on the Vector a, for every element type, with
\* every exception the type can throw, and a second Vector b that is
\* constructed by Vector b(n), destroyed, and assigned to a by a = b.
NextSource ==
    \/ CallDefaultConstruct("a")
    \/ \E n \in 0..MaxLenTwo : CallVectorOfSize("a", n)
    \/ CallDestructor("a")
    \/ \E n \in 0..MaxLenTwo : CallReserve("a", n)
    \/ \E n \in 0..MaxLenTwo : CallResize("a", n)
    \/ \E v \in Values : vec["a"].size < MaxLenTwo /\ CallPushBack("a", v)
    \/ CallPopBack("a")
    \/ \E i \in 0..MaxLenTwo, v \in Values : vec["a"].size < MaxLenTwo /\ CallInsert("a", i, v)
    \/ \E i \in 0..MaxLenTwo : CallErase("a", i)
    \/ \E i \in 0..MaxLenTwo, v \in Values : CallWrite("a", i, v)
    \/ \E n \in 0..MaxLenTwo : CallVectorOfSize("b", n)
    \/ CallDestructor("b")
    \/ CallCopyAssign("a", "b")

SpecSource == Init /\ [][NextSource]_vars

\* SpecPushPop: PushBack and PopBack calls only, on a Vector that starts
\* empty, for every element type, with every exception the type can throw;
\* a call that does not return ends the run.
InitPushPop == InitWith(Types, NewHist)

NextPushPop ==
    /\ hist.on /\ hist.pushes + hist.pops < MaxHist
    /\ \/ \E v \in Values : vec["a"].size < MaxLen /\ CallPushBack("a", v)
       \/ CallPopBack("a")

SpecPushPop == InitPushPop /\ [][NextPushPop]_vars

\* ------------------------------------------------------------ properties

\* The sequence s with e put in before its element i (0-based), and s
\* without its element i.
InsertedAt(s, i, e) == SubSeq(s, 1, i) \o <<e>> \o SubSeq(s, i + 1, Len(s))

RemovedAt(s, i) == SubSeq(s, 1, i) \o SubSeq(s, i + 2, Len(s))

\* x is well formed: Size() <= Capacity(), its block has Capacity() slots,
\* those below Size() hold objects and those from Size() on are raw.
WellFormed(x) ==
    /\ vec[x].size <= vec[x].cap
    /\ Len(Block(x)) = vec[x].cap
    /\ \A i \in 1..vec[x].cap : (Block(x)[i].st # "uninit") <=> (i <= vec[x].size)

\* C1: at every operation boundary, after any sequence of public operations
\* called within their preconditions, every Vector has
\* 0 <= Size() <= Capacity(), holds a live element in every slot of
\* [0, Size()) and has every slot of [Size(), Capacity()) uninitialized.
C1_RegionsInvariant ==
    ~crashed => \A x \in Names : vec[x].alive => WellFormed(x)

\* A boundary where C1 fails: a slot at or above Size() holds an object.
C1_LiveSlotAboveSize ==
    /\ ~crashed /\ vec["a"].alive
    /\ vec["a"].size < vec["a"].cap
    /\ Block("a")[vec["a"].size + 1].st # "uninit"

\* C2: starting from an empty Vector, after every sequence of PushBack and
\* PopBack calls (each PopBack with Size() > 0), Size() is the number of
\* pushes minus the number of pops and the elements at 0..Size()-1 are the
\* pushed values not yet popped, in push order, whatever reallocations took
\* place.
C2_PushPopSequence ==
    hist.on =>
        /\ ~crashed /\ vec["a"].alive
        /\ Size("a") = hist.pushes - hist.pops
        /\ Elems("a") = hist.expect

\* C2 at work: pushes through two reallocations and a pop in between.
C2_PushedAndPopped ==
    /\ hist.on /\ hist.pushes >= 4 /\ hist.pops >= 1
    /\ Size("a") = 3 /\ Capacity("a") = 4
    /\ Elems("a")[1] # Elems("a")[2]

\* What C3 asks of the world w an Insert of v at index i leaves, s being the
\* sequence before it.
Inserted(w, s, i, v) ==
    /\ Ok(w) /\ ~w.ub
    /\ ElemsIn(w, "a") = InsertedAt(s, i, Obj(v))
    /\ w.vec["a"].size = Len(s) + 1
    /\ w.ret = [blk |-> w.vec["a"].data, off |-> i]
    /\ IsLive(w, w.ret.blk, w.ret.off)
    /\ w.mem[w.ret.blk][w.ret.off + 1] = Obj(v)

\* C3: for every Vector with sequence s of size n and every 0 <= i <= n,
\* Insert/Emplace of v at begin() + i gives s[0..i) ++ [v] ++ s[i..n) with
\* Size() = n + 1 and returns the new begin() + i, which designates v; in
\* each of the three paths (i = n, i < n with a new block, i < n in place).
C3_InsertSequence ==
    (~crashed /\ vec["a"].alive) =>
        \A i \in 0..Size("a"), v \in Values :
            Inserted(Emplace(World(0, "noop"), "a", i, v), Elems("a"), i, v)

\* C3 at work: from a full Vector of two elements, an Insert at the front
\* (new block), then one in the middle (in place) and one at the end.
C3_ThreePaths ==
    /\ ~crashed /\ vec["a"].alive
    /\ Size("a") = 2 /\ Capacity("a") = 2
    /\ Elems("a")[1] # Elems("a")[2]
    /\ \E v \in Values :
        /\ Emplace(World(0, "noop"), "a", 0, v).path = "grow"
        /\ Inserted(Emplace(World(0, "noop"), "a", 0, v), Elems("a"), 0, v)
        /\ Emplace(Emplace(World(0, "noop"), "a", 0, v), "a", 1, v).path = "shift"
        /\ Inserted(Emplace(Emplace(World(0, "noop"), "a", 0, v), "a", 1, v),
                    InsertedAt(Elems("a"), 0, Obj(v)), 1, v)
        /\ Emplace(Emplace(World(0, "noop"), "a", 0, v), "a", 3, v).path = "room"
        /\ Inserted(Emplace(Emplace(World(0, "noop"), "a", 0, v), "a", 3, v),
                    InsertedAt(Elems("a"), 0, Obj(v)), 3, v)

\* What C4 asks of the world w an Erase at index i leaves, s being the
\* sequence before it.
Erased(w, s, i) ==
    /\ Ok(w) /\ ~w.ub
    /\ ElemsIn(w, "a") = RemovedAt(s, i)
    /\ w.vec["a"].size = Len(s) - 1
    /\ w.vec["a"].cap = Capacity("a") /\ w.vec["a"].data = Begin("a")
    /\ w.destroyed = 1 /\ w.mem[Begin("a")][Len(s)] = Uninit
    /\ w.ret = [blk |-> Begin("a"), off |-> i]
    /\ i < Len(s) - 1 => w.mem[w.ret.blk][w.ret.off + 1] = s[i + 2]
    /\ i = Len(s) - 1 => w.ret.off = w.vec["a"].size

\* C4: for every Vector with sequence s of size n >= 1 and every
\* 0 <= i < n, Erase at begin() + i gives s[0..i) ++ s[i+1..n) with
\* Size() = n - 1, keeps Capacity() and the block, destroys exactly one
\* element (the final slot), and returns begin() + i, which designates the
\* element that followed the erased one, or end() when i = n - 1.
C4_EraseSequence ==
    (~crashed /\ vec["a"].alive) =>
        \A i \in 0..(Size("a") - 1) :
            Erased(Erase(World(0, "noop"), "a", i), Elems("a"), i)

\* C4 at work: the first of three elements, the last two differing, erased.
C4_ErasedFirstOfThree ==
    /\ ~crashed /\ vec["a"].alive
    /\ Size("a") = 3 /\ Elems("a")[2] # Elems("a")[3]
    /\ Erased(Erase(World(0, "noop"), "a", 0), Elems("a"), 0)
    /\ Erased(Erase(World(0, "noop"), "a", 2), Elems("a"), 2)

\* C5: for every Vector, every i in [0, Size()] and every v,
\* Insert(begin() + i, v) followed by Erase(begin() + i) restores the
\* original sequence and Size(), whether or not the Insert reallocated.
C5_InsertEraseRoundTrip ==
    (~crashed /\ vec["a"].alive) =>
        \A i \in 0..Size("a"), v \in Values :
            /\ Ok(Erase(Emplace(World(0, "noop"), "a", i, v), "a", i))
            /\ ElemsIn(Erase(Emplace(World(0, "noop"), "a", i, v), "a", i), "a") = Elems("a")
            /\ Erase(Emplace(World(0, "noop"), "a", i, v), "a", i).vec["a"].size = Size("a")

\* C5 at work: a round trip through a reallocation, and one in place.
C5_RoundTripThroughGrowth ==
    /\ ~crashed /\ vec["a"].alive
    /\ Size("a") = 2 /\ Capacity("a") = 2
    /\ Elems("a")[1] # Elems("a")[2]
    /\ \E v \in Values :
        /\ Erase(Emplace(World(0, "noop"), "a", 1, v), "a", 1).vec["a"].cap = 4
        /\ ElemsIn(Erase(Emplace(World(0, "noop"), "a", 1, v), "a", 1), "a") = Elems("a")
        /\ ElemsIn(Erase(Emplace(Erase(Emplace(World(0, "noop"), "a", 1, v), "a", 1),
                                 "a", 0, v), "a", 0), "a") = Elems("a")

\* What C6 asks of the world w left by a call in which the copy of an
\* existing element failed: the exception reaches the caller, and a has the
\* block, the Capacity(), the Size() and the elements it had.
CopyFailureRestored(w) ==
    w.thrown = "copy" =>
        /\ ~w.abort
        /\ w.vec["a"] = vec["a"]
        /\ ElemsIn(w, "a") = Elems("a")

\* C6: for an element type relocated by copy (copy-constructible, move may
\* throw), when the copy of an existing element fails during the relocation
\* of Reserve, of a growing PushBack/EmplaceBack or of a growing
\* Insert/Emplace, the failure reaches the caller and the Vector has the same
\* block, Capacity(), Size() and element values as before the call.
C6_CopyRelocationStrong ==
    (~crashed /\ vec["a"].alive /\ ~ttype.nothrowMove /\ ttype.copyable) =>
        \A f \in 1..(Size("a") + 1), o \in Outcomes, v \in Values :
            /\ CopyFailureRestored(Reserve(World(f, o), "a", Capacity("a") + 1))
            /\ Size("a") = Capacity("a") =>
                   /\ CopyFailureRestored(EmplaceBack(World(f, o), "a", v))
                   /\ \A i \in 0..(Size("a") - 1) :
                          CopyFailureRestored(Emplace(World(f, o), "a", i, v))

\* Where C6 fails: a growing PushBack whose copy of an existing element
\* throws runs into undefined behaviour while the new Vector is torn down.
C6_GrowthCopyFailure ==
    /\ ~crashed /\ vec["a"].alive /\ ~ttype.nothrowMove /\ ttype.copyable
    /\ Size("a") = Capacity("a")
    /\ \E f \in 1..(Size("a") + 1), v \in Values :
        /\ EmplaceBack(World(f, "abort"), "a", v).thrown = "copy"
        /\ EmplaceBack(World(f, "abort"), "a", v).ub

\* What C7 asks of the world w left by a growing append: the new element was
\* constructed before any element left the old block, and when its
\* construction failed the exception reaches the caller, a is as it was, no
\* object of the old block was touched and the new block is gone.
NewElementFirst(w) ==
    /\ w.newFirst
    /\ w.thrown = "args" =>
        /\ ~w.abort
        /\ w.vec["a"] = vec["a"]
        /\ w.mem = mem

\* C7: in an append with Size() = Capacity() the new element is constructed
\* into slot Size() of the new block before any existing element is moved or
\* copied; when that construction fails no element of the old block is
\* moved-from or destroyed, the block, Size() and Capacity() are unchanged
\* and the new block is released.
C7_AppendConstructsFirst ==
    (~crashed /\ vec["a"].alive /\ Size("a") = Capacity("a")) =>
        \A f \in 0..(Size("a") + 1), o \in Outcomes, v \in Values :
            NewElementFirst(EmplaceBack(World(f, o), "a", v))

\* Where C7 fails: the new element of a growing append on a non-empty Vector
\* fails to construct, and the new Vector is torn down in undefined behaviour.
C7_ConstructionFailure ==
    /\ ~crashed /\ vec["a"].alive
    /\ Size("a") = Capacity("a") /\ Size("a") >= 1
    /\ \E v \in Values :
        /\ EmplaceBack(World(1, "abort"), "a", v).thrown = "args"
        /\ EmplaceBack(World(1, "abort"), "a", v).ub

\* What C8 asks of the world w left by a call that relocated the n elements
\* of a: all were moved when the move cannot throw or the type cannot be
\* copied; otherwise all were copied and were still what they had been when
\* they were destroyed.
Relocated(w, n) ==
    /\ Ok(w) /\ ~w.ub
    /\ w.xfers = n
    /\ (ttype.nothrowMove \/ ~ttype.copyable) => w.moves = n
    /\ (~ttype.nothrowMove /\ ttype.copyable) => (w.moves = 0 /\ w.intact)

\* C8: with the element type given by two flags (move cannot throw; copy
\* constructible), every relocation of the existing elements into a new
\* block, in Reserve, in a growing EmplaceBack/PushBack and in a growing
\* Emplace/Insert, moves when the move cannot throw or the type cannot be
\* copied, and copies otherwise; after a copy relocation the old elements
\* keep their values until they are destroyed.
C8_RelocationRule ==
    (~crashed /\ vec["a"].alive) =>
        \A v \in Values :
            /\ Relocated(Reserve(World(0, "noop"), "a", Capacity("a") + 1), Size("a"))
            /\ Size("a") = Capacity("a") =>
                   /\ Relocated(EmplaceBack(World(0, "noop"), "a", v), Size("a"))
                   /\ \A i \in 0..(Size("a") - 1) :
                          Relocated(Emplace(World(0, "noop"), "a", i, v), Size("a"))

\* C8 at work: two elements of a type relocated by copy, through each of the
\* three relocations.
C8_CopiedTwo ==
    /\ ~crashed /\ vec["a"].alive /\ ~ttype.nothrowMove /\ ttype.copyable
    /\ Size("a") = 2 /\ Capacity("a") = 2
    /\ Reserve(World(0, "noop"), "a", 3).xfers = 2
    /\ Reserve(World(0, "noop"), "a", 3).moves = 0
    /\ EmplaceBack(World(0, "noop"), "a", DefaultVal).xfers = 2
    /\ EmplaceBack(World(0, "noop"), "a", DefaultVal).moves = 0
    /\ Emplace(World(0, "noop"), "a", 1, DefaultVal).xfers = 2
    /\ Emplace(World(0, "noop"), "a", 1, DefaultVal).moves = 0
    /\ Emplace(World(0, "noop"), "a", 1, DefaultVal).intact

\* What C9 asks of the world w left by x = std::move(y): x has y's sequence
\* and Size(), no destroy fell outside a live region, and when Size() shrank
\* no more was destroyed than x's excess tail.
MoveAssigned(w, x, y) ==
    /\ ~w.abort /\ ~w.ub
    /\ ElemsIn(w, x) = Elems(y)
    /\ w.vec[x].size = Size(y)
    /\ (Size(y) <= Capacity(x) /\ Size(y) < Size(x)) => w.destroyed <= Size(x) - Size(y)

\* C9: after a = std::move(b) between two distinct Vectors, a holds b's
\* prior sequence and Size() in each of the three cases; when a shrinks, the
\* only elements destroyed are a's excess tail: the count of destructions is
\* a non-negative number of live elements and no slot outside a live region
\* is destroyed.
C9_MoveAssignment ==
    ~crashed =>
        \A x \in Names, y \in Names :
            (x # y /\ vec[x].alive /\ vec[y].alive) =>
                \A o \in Outcomes : MoveAssigned(MoveAssign(World(0, o), x, y), x, y)

\* Where C9 fails: the shrinking case destroys outside the live region.
C9_ShrinkDestroysOutside ==
    /\ ~crashed /\ vec["a"].alive /\ vec["b"].alive
    /\ Size("b") < Size("a") /\ Size("b") >= 1
    /\ MoveAssign(World(0, "noop"), "a", "b").path = "shrink"
    /\ MoveAssign(World(0, "noop"), "a", "b").ub
    /\ MoveAssign(World(0, "noop"), "a", "b").destroyed = 0

\* What C10 asks of the world w left by x = y.
CopyAssigned(w, x, y) ==
    /\ Ok(w) /\ ~w.ub
    /\ ElemsIn(w, x) = Elems(y) /\ w.vec[x].size = Size(y)
    /\ w.vec[y] = vec[y] /\ ElemsIn(w, y) = Elems(y)
    /\ Size(y) <= Capacity(x) =>
        /\ w.vec[x].data = Begin(x) /\ w.vec[x].cap = Capacity(x)
        /\ w.destroyed = IF Size(x) > Size(y) THEN Size(x) - Size(y) ELSE 0
        /\ w.xfers = IF Size(y) > Size(x) THEN Size(y) - Size(x) ELSE 0
    /\ Size(y) > Capacity(x) => w.vec[x].cap = Size(y)

\* C10: after a = b between two distinct Vectors, a's sequence and Size()
\* are b's and b is unchanged; when b.Size() <= a.Capacity() a keeps its
\* block and Capacity() (the common prefix is assigned, then a's excess tail
\* is destroyed or the missing tail copy-constructed); when
\* b.Size() > a.Capacity() a ends with Capacity() = b.Size(); a = a changes
\* nothing.
C10_CopyAssignment ==
    (~crashed /\ ttype.copyable) =>
        \A x \in Names, y \in Names :
            (vec[x].alive /\ vec[y].alive) =>
                /\ x # y => CopyAssigned(CopyAssign(World(0, "noop"), x, y), x, y)
                /\ Vecs(CopyAssign(World(0, "noop"), x, x)) = vec
                /\ CopyAssign(World(0, "noop"), x, x).mem = mem

\* C10 at work: two Vectors of which each can be assigned to the other, one
\* way within the capacity and with a tail to destroy, the other way through
\* a new block.
C10_ShrinkAndRealloc ==
    /\ ~crashed /\ vec["a"].alive /\ vec["b"].alive
    /\ Size("a") = 2 /\ Size("b") = 1 /\ Capacity("b") = 1
    /\ Elems("a")[1] # Elems("b")[1]
    /\ CopyAssign(World(0, "noop"), "a", "b").path = "shrink"
    /\ CopyAssigned(CopyAssign(World(0, "noop"), "a", "b"), "a", "b")
    /\ CopyAssign(World(0, "noop"), "b", "a").path = "realloc"
    /\ CopyAssigned(CopyAssign(World(0, "noop"), "b", "a"), "b", "a")

\* C11: a PushBack/EmplaceBack called with Size() = Capacity() = c leaves
\* Capacity() = max(1, 2 * c); called with Size() < Capacity() it leaves
\* Capacity() and the block unchanged.
C11_GrowthPolicy ==
    (~crashed /\ vec["a"].alive) =>
        \A v \in Values :
            /\ Ok(EmplaceBack(World(0, "noop"), "a", v))
            /\ Size("a") = Capacity("a") =>
                   EmplaceBack(World(0, "noop"), "a", v).vec["a"].cap
                       = IF Capacity("a") = 0 THEN 1 ELSE 2 * Capacity("a")
            /\ Size("a") < Capacity("a") =>
                   /\ EmplaceBack(World(0, "noop"), "a", v).vec["a"].cap = Capacity("a")
                   /\ EmplaceBack(World(0, "noop"), "a", v).vec["a"].data = Begin("a")

\* C11 at work: from a full Vector of two elements, a push that doubles the
\* capacity to 4 and a further one that finds room.
C11_DoubledThenRoom ==
    /\ ~crashed /\ vec["a"].alive
    /\ Size("a") = 2 /\ Capacity("a") = 2
    /\ EmplaceBack(World(0, "noop"), "a", DefaultVal).path = "grow"
    /\ EmplaceBack(World(0, "noop"), "a", DefaultVal).vec["a"].cap = 4
    /\ EmplaceBack(EmplaceBack(World(0, "noop"), "a", DefaultVal), "a", DefaultVal).path = "room"
    /\ EmplaceBack(EmplaceBack(World(0, "noop"), "a", DefaultVal), "a", DefaultVal).vec["a"]
           = [alive |-> TRUE, size |-> 4, cap |-> 4,
              data |-> EmplaceBack(World(0, "noop"), "a", DefaultVal).vec["a"].data]

\* k calls of PushBack(v) on x, one after the other.
RECURSIVE PushN(_, _, _, _)
PushN(w, x, k, v) ==
    IF k <= 0 THEN w ELSE PushN(EmplaceBack(w, x, v), x, k - 1, v)

\* What C12 asks of the world w that pushes leave, w0 being the world the
\* Reserve left: a has the block and the Capacity() of w0, and every element
\* of w0 is in the slot it was in.
KeptBlock(w, w0) ==
    /\ Ok(w) /\ Ok(w0)
    /\ w.vec["a"].data = w0.vec["a"].data
    /\ w.vec["a"].cap = w0.vec["a"].cap
    /\ \A i \in 1..w0.vec["a"].size :
           w.mem[w.vec["a"].data][i] = w0.mem[w0.vec["a"].data][i]

\* C12: after Reserve(n), every PushBack/EmplaceBack made while Size() < n
\* leaves the block unchanged, so every live element keeps its slot; in
\* particular Reserve(10) on an empty Vector and 10 PushBack calls make no
\* reallocation.
C12_ReserveThenPush ==
    (~crashed /\ vec["a"].alive) =>
        \A n \in 0..MaxReserve, v \in Values :
            \A k \in 0..(n - Size("a")) :
                /\ KeptBlock(PushN(Reserve(World(0, "noop"), "a", n), "a", k, v),
                             Reserve(World(0, "noop"), "a", n))
                /\ PushN(Reserve(World(0, "noop"), "a", n), "a", k, v).vec["a"].size
                       = Size("a") + k

\* C12 at work: Reserve(10) on an empty Vector, then 10 pushes into the one
\* block.
C12_TenPushes ==
    /\ ~crashed /\ vec["a"].alive
    /\ Size("a") = 0 /\ Capacity("a") = 0
    /\ Reserve(World(0, "noop"), "a", 10).vec["a"].cap = 10
    /\ PushN(Reserve(World(0, "noop"), "a", 10), "a", 10, DefaultVal).vec["a"]
           = [alive |-> TRUE, size |-> 10, cap |-> 10,
              data |-> Reserve(World(0, "noop"), "a", 10).vec["a"].data]

\* What C13 asks of the world w a Reserve(n) leaves.
Reserved(w, n) ==
    /\ Ok(w) /\ ~w.ub
    /\ w.vec["a"].cap >= n
    /\ w.vec["a"].size = Size("a")
    /\ ElemsIn(w, "a") = Elems("a")
    /\ n <= Capacity("a") =>
        /\ w.vec["a"] = vec["a"] /\ w.mem = mem
        /\ w.ticks = 0 /\ w.xfers = 0 /\ w.destroyed = 0

\* C13: after Reserve(n), Capacity() >= n and Size() and the sequence are
\* as before; when n <= Capacity() beforehand, Reserve(n) is a no-op: block,
\* Capacity(), Size() and elements are unchanged and no element is
\* constructed, moved, copied or destroyed.
C13_Reserve ==
    (~crashed /\ vec["a"].alive) =>
        \A n \in 0..MaxReserve : Reserved(Reserve(World(0, "noop"), "a", n), n)

\* C13 at work: a full Vector of two elements, Reserve(3) moving it to a new
\* block and Reserve(1) doing nothing.
C13_GrownAndNoOp ==
    /\ ~crashed /\ vec["a"].alive
    /\ Size("a") = 2 /\ Capacity("a") = 2
    /\ Elems("a")[1] # Elems("a")[2]
    /\ Reserved(Reserve(World(0, "noop"), "a", 3), 3)
    /\ Reserve(World(0, "noop"), "a", 3).vec["a"].cap = 3
    /\ Reserve(World(0, "noop"), "a", 3).vec["a"].data # Begin("a")
    /\ Reserve(World(0, "noop"), "a", 3).xfers = 2
    /\ Reserved(Reserve(World(0, "noop"), "a", 1), 1)
    /\ Reserve(World(0, "noop"), "a", 1).mem = mem

\* What C14 asks of the world w a Resize(n) leaves.
Resized(w, n) ==
    /\ Ok(w) /\ ~w.ub
    /\ w.vec["a"].size = n
    /\ \A i \in 1..Size("a") : i <= n => ElemsIn(w, "a")[i] = Elems("a")[i]
    /\ n < Size("a") =>
        /\ w.destroyed = Size("a") - n
        /\ w.vec["a"].cap = Capacity("a") /\ w.vec["a"].data = Begin("a")
        /\ \A i \in (n + 1)..Size("a") : w.mem[Begin("a")][i] = Uninit
    /\ n > Size("a") =>
        \A i \in (Size("a") + 1)..n : ElemsIn(w, "a")[i] = Obj(DefaultVal)
    /\ n = Size("a") => (w.vec["a"] = vec["a"] /\ w.mem = mem)

\* C14: after Resize(n) on a Vector of size s, Size() = n and the elements
\* at [0, min(s, n)) keep their values; when n < s exactly the s - n elements
\* at [n, s) are destroyed and Capacity() is unchanged; when n > s the
\* elements at [s, n) have T's value-initialized value; when n = s nothing
\* changes.
C14_Resize ==
    (~crashed /\ vec["a"].alive) =>
        \A n \in 0..MaxReserve : Resized(Resize(World(0, "noop"), "a", n), n)

\* C14 at work: a full Vector of two elements, the first not the default
\* value, resized down to 1, up to 3 and to its own size.
C14_DownUpSame ==
    /\ ~crashed /\ vec["a"].alive
    /\ Size("a") = 2 /\ Capacity("a") = 2
    /\ Elems("a")[1] = Obj(1)
    /\ Resize(World(0, "noop"), "a", 1).path = "shrink"
    /\ Resized(Resize(World(0, "noop"), "a", 1), 1)
    /\ Resize(World(0, "noop"), "a", 3).path = "extend"
    /\ Resized(Resize(World(0, "noop"), "a", 3), 3)
    /\ ElemsIn(Resize(World(0, "noop"), "a", 3), "a")[3] = Obj(DefaultVal)
    /\ Resize(World(0, "noop"), "a", 2).path = "same"
    /\ Resized(Resize(World(0, "noop"), "a", 2), 2)

\* y is in world w what it is now: the same block, Capacity() and Size(), and
\* the same objects in the block.
Untouched(w, y) ==
    /\ ~w.abort /\ ~w.ub
    /\ w.vec[y] = vec[y]
    /\ vec[y].data # Null => w.mem[vec[y].data] = mem[vec[y].data]

\* What C15 asks of the world w in which y was copy-constructed from x.
CopyConstructed(w, y, x) ==
    /\ Ok(w) /\ Untouched(w, x)
    /\ ElemsIn(w, y) = Elems(x)
    /\ w.vec[y].size = Size(x) /\ w.vec[y].cap = Size(x)
    /\ w.vec[y].data # Begin(x) \/ w.vec[y].data = Null
    /\ Size(x) > 0 => w.vec[y].data # Null

\* C15: copy-constructing b from a gives b a's sequence, with
\* b.Capacity() = a.Size() and a block that is not a's (none at all when a is
\* empty); from then on no mutating operation on one of them (element write,
\* PushBack, PopBack, Insert, Erase, Resize, Reserve) changes the other's
\* sequence, Size(), Capacity() or block.
C15_DeepCopy ==
    (~crashed /\ ttype.copyable) =>
        \A x \in Names : \A y \in Names \ {x} :
            /\ (vec[x].alive /\ ~vec[y].alive) =>
                   CopyConstructed(CopyConstruct(World(0, "noop"), y, x), y, x)
            /\ (vec[x].alive /\ vec[y].alive) =>
                   /\ \A v \in Values :
                          /\ Untouched(EmplaceBack(World(0, "noop"), x, v), y)
                          /\ \A i \in 0..Size(x) :
                                 Untouched(Emplace(World(0, "noop"), x, i, v), y)
                          /\ \A i \in 0..(Size(x) - 1) :
                                 Untouched(WriteAt(World(0, "noop"), x, i, v), y)
                   /\ \A i \in 0..(Size(x) - 1) :
                          Untouched(Erase(World(0, "noop"), x, i), y)
                   /\ Size(x) > 0 => Untouched(PopBack(World(0, "noop"), x), y)
                   /\ \A n \in 0..MaxReserve :
                          /\ Untouched(Resize(World(0, "noop"), x, n), y)
                          /\ Untouched(Reserve(World(0, "noop"), x, n), y)

\* C15 at work: b copy-constructed from a Vector a of two elements, then
\* written to and pushed to, with a left as it was.
C15_CopyThenWrite ==
    /\ ~crashed /\ ttype.copyable /\ vec["a"].alive /\ ~vec["b"].alive
    /\ Size("a") = 2 /\ Elems("a")[1] = Obj(0)
    /\ CopyConstructed(CopyConstruct(World(0, "noop"), "b", "a"), "b", "a")
    /\ ElemsIn(WriteAt(CopyConstruct(World(0, "noop"), "b", "a"), "b", 0, 1), "b")[1] = Obj(1)
    /\ Untouched(WriteAt(CopyConstruct(World(0, "noop"), "b", "a"), "b", 0, 1), "a")
    /\ EmplaceBack(CopyConstruct(World(0, "noop"), "b", "a"), "b", 1).vec["b"].size = 3
    /\ Untouched(EmplaceBack(CopyConstruct(World(0, "noop"), "b", "a"), "b", 1), "a")

\* What C16 asks of the world w in which y was move-constructed from x.
MoveConstructed(w, y, x) ==
    /\ Ok(w) /\ ~w.ub
    /\ w.vec[y] = [alive |-> TRUE, data |-> Begin(x), cap |-> Capacity(x), size |-> Size(x)]
    /\ ElemsIn(w, y) = Elems(x)
    /\ w.mem = mem /\ w.ticks = 0 /\ w.xfers = 0 /\ w.destroyed = 0
    /\ w.vec[x] = EmptyVec

\* C16: move-constructing b from a gives b a's sequence, Size(), Capacity()
\* and block without constructing or destroying an element, and leaves a
\* empty (Size() = 0, Capacity() = 0, no block), so that destroying a
\* afterwards destroys no element and releases no block.
C16_MoveConstruct ==
    ~crashed =>
        \A x \in Names : \A y \in Names \ {x} :
            (vec[x].alive /\ ~vec[y].alive) =>
                /\ MoveConstructed(MoveConstruct(World(0, "noop"), y, x), y, x)
                /\ ~Destructor(MoveConstruct(World(0, "noop"), y, x), x).ub
                /\ Destructor(MoveConstruct(World(0, "noop"), y, x), x).destroyed = 0
                /\ Destructor(MoveConstruct(World(0, "noop"), y, x), x).mem = mem

\* C16 at work: b move-constructed from a Vector a of two elements.
C16_MovedTwo ==
    /\ ~crashed /\ vec["a"].alive /\ ~vec["b"].alive
    /\ Size("a") = 2 /\ Elems("a")[1] # Elems("a")[2]
    /\ MoveConstructed(MoveConstruct(World(0, "noop"), "b", "a"), "b", "a")
    /\ MoveConstruct(World(0, "noop"), "b", "a").vec["b"].data # Null
    /\ Destructor(MoveConstruct(World(0, "noop"), "b", "a"), "a").mem = mem

\* What C17 asks of the world w a call on a leaves.
NotLowered(w) == ~w.abort => w.vec["a"].cap >= Capacity("a")

\* C17: a single call of Reserve, Resize, PushBack/EmplaceBack, PopBack,
\* Insert/Emplace, Erase or copy assignment (to it) never leaves a Vector
\* with less Capacity() than it had, whether the call returns or throws; only
\* move construction from it, move assignment and Swap can lower it.
C17_CapacityMonotone ==
    (~crashed /\ vec["a"].alive) =>
        \A o \in Outcomes :
            /\ \A n \in 0..(Capacity("a") + 1) :
                   /\ \A f \in FailsOf(Reserve(World(0, "noop"), "a", n)) :
                          NotLowered(Reserve(World(f, o), "a", n))
                   /\ \A f \in FailsOf(Resize(World(0, "noop"), "a", n)) :
                          NotLowered(Resize(World(f, o), "a", n))
            /\ \A v \in Values :
                   /\ \A f \in FailsOf(EmplaceBack(World(0, "noop"), "a", v)) :
                          NotLowered(EmplaceBack(World(f, o), "a", v))
                   /\ \A i \in 0..Size("a") :
                          \A f \in FailsOf(Emplace(World(0, "noop"), "a", i, v)) :
                              NotLowered(Emplace(World(f, o), "a", i, v))
            /\ \A i \in 0..(Size("a") - 1) :
                   \A f \in FailsOf(Erase(World(0, "noop"), "a", i)) :
                       NotLowered(Erase(World(f, o), "a", i))
            /\ Size("a") > 0 => NotLowered(PopBack(World(0, o), "a"))
            /\ (ttype.copyable /\ vec["b"].alive) =>
                   \A f \in FailsOf(CopyAssign(World(0, "noop"), "a", "b")) :
                       NotLowered(CopyAssign(World(f, o), "a", "b"))
            /\ ttype.copyable => NotLowered(CopyAssign(World(0, o), "a", "a"))

\* C17 at work: a full Vector of two elements that is assigned a shorter
\* one, resized to nothing, popped and erased from, and keeps its capacity.
C17_KeptCapacity ==
    /\ ~crashed /\ ttype.copyable /\ vec["a"].alive /\ vec["b"].alive
    /\ Size("a") = 2 /\ Capacity("a") = 2 /\ Size("b") = 1
    /\ Ok(CopyAssign(World(0, "noop"), "a", "b"))
    /\ CopyAssign(World(0, "noop"), "a", "b").vec["a"]
           = [alive |-> TRUE, data |-> Begin("a"), cap |-> 2, size |-> 1]
    /\ Resize(World(0, "noop"), "a", 0).vec["a"].cap = 2
    /\ PopBack(World(0, "noop"), "a").vec["a"].cap = 2
    /\ Erase(World(0, "noop"), "a", 0).vec["a"].cap = 2

\* What C18 asks of the world w a call leaves: no destroy fell on a slot
\* without a live element and no construct outside the block (w.ub), no
\* construct fell on a slot that held an element and no element went away
\* with its block undestroyed (w.leaked), and the element Emplace keeps on
\* the heap did not stay alive.
Lawful(w) == ~w.ub /\ ~w.leaked /\ w.heapElem # "live"

\* C18: in every operation and on every path, also where the construction of
\* the new element or the copy of an existing one fails and the new Vector of
\* a growing EmplaceBack/Emplace is torn down, a destroy is applied only to a
\* slot holding a live element and a construct only to an uninitialized slot
\* inside the capacity, so that every element constructed is destroyed
\* exactly once.
C18_LegalLifetimes ==
    (~crashed /\ vec["a"].alive /\ WellFormed("a")) =>
        \A o \in Outcomes :
            /\ \A n \in 0..(Capacity("a") + 1) :
                   /\ \A f \in FailsOf(Reserve(World(0, "noop"), "a", n)) :
                          Lawful(Reserve(World(f, o), "a", n))
                   /\ \A f \in FailsOf(Resize(World(0, "noop"), "a", n)) :
                          Lawful(Resize(World(f, o), "a", n))
            /\ \A v \in Values :
                   /\ \A f \in FailsOf(EmplaceBack(World(0, "noop"), "a", v)) :
                          Lawful(EmplaceBack(World(f, o), "a", v))
                   /\ \A i \in 0..Size("a") :
                          \A f \in FailsOf(Emplace(World(0, "noop"), "a", i, v)) :
                              Lawful(Emplace(World(f, o), "a", i, v))
            /\ \A i \in 0..(Size("a") - 1) :
                   \A f \in FailsOf(Erase(World(0, "noop"), "a", i)) :
                       Lawful(Erase(World(f, o), "a", i))
            /\ Size("a") > 0 => Lawful(PopBack(World(0, o), "a"))
            /\ Lawful(Destructor(World(0, o), "a"))

\* Where C18 fails: a growing Insert into a well-formed Vector in which an
\* element operation throws, and the teardown of the new Vector destroys
\* slots that hold nothing.
C18_TeardownOfRawSlots ==
    /\ ~crashed /\ vec["a"].alive /\ WellFormed("a")
    /\ Size("a") = Capacity("a") /\ Size("a") >= 2
    /\ \E f \in 1..(Size("a") + 1), v \in Values :
        /\ Emplace(World(f, "noop"), "a", 0, v).path = "grow"
        /\ Emplace(World(f, "noop"), "a", 0, v).thrown # "none"
        /\ Emplace(World(f, "noop"), "a", 0, v).ub

\* What C19 asks of the world w an Insert that failed leaves: the exception
\* reaches the caller, and a has the Size() and the elements it had and no
\* live element at or beyond Size().
InsertUndone(w) ==
    w.thrown # "none" =>
        /\ ~w.abort
        /\ w.vec["a"] = vec["a"]
        /\ ElemsIn(w, "a") = Elems("a")
        /\ \A i \in (Size("a") + 1)..Capacity("a") : w.mem[Begin("a")][i] = Uninit

\* C19: in an Insert/Emplace with pos # end() and Size() < Capacity(), when
\* an element operation fails (the construction of the new value, the move
\* construction of the last element into slot Size(), or a move assignment
\* of the shift), the Vector is left in its prior valid state: same Size(),
\* same values in [0, Size()), no live element at or beyond Size().
C19_InPlaceInsertStrong ==
    (~crashed /\ vec["a"].alive /\ WellFormed("a") /\ Size("a") < Capacity("a")) =>
        \A i \in 0..(Size("a") - 1), v \in Values, o \in Outcomes :
            \A f \in FailsOf(Emplace(World(0, "noop"), "a", i, v)) :
                InsertUndone(Emplace(World(f, o), "a", i, v))

\* Where C19 fails: the shift of an Insert with room throws after the last
\* element was move-constructed into slot Size().
C19_ShiftFailure ==
    /\ ~crashed /\ vec["a"].alive /\ WellFormed("a")
    /\ Size("a") = 2 /\ Capacity("a") > 2
    /\ \E f \in 1..4, v \in Values :
        /\ Emplace(World(f, "noop"), "a", 0, v).path = "shift"
        /\ Emplace(World(f, "noop"), "a", 0, v).thrown = "moveassign"
        /\ Emplace(World(f, "noop"), "a", 0, v).vec["a"].size = 2
        /\ Emplace(World(f, "noop"), "a", 0, v).mem[Begin("a")][3].st # "uninit"

\* What C20 asks of the world w left by a call followed by the destruction
\* of a: no block is still allocated, the element Emplace allocated on the
\* heap is released, and no block was released twice.
AllReleased(w) ==
    /\ ~w.ub
    /\ \A b \in BlockIds : w.mem[b] = <<>>
    /\ w.heapElem = "none"

\* C20: every block an operation allocates (the blocks of RawMemory, and the
\* element the Insert/Emplace with room allocates on the heap) is released
\* exactly once: after any operations and the destruction of all Vectors no
\* block is left allocated and none was released twice.
C20_BlocksReleasedOnce ==
    (~crashed /\ vec["a"].alive /\ WellFormed("a")) =>
        /\ AllReleased(Destructor(World(0, "noop"), "a"))
        /\ \A n \in 0..(Capacity("a") + 1) :
               /\ AllReleased(Destructor(Reserve(World(0, "noop"), "a", n), "a"))
               /\ AllReleased(Destructor(Resize(World(0, "noop"), "a", n), "a"))
        /\ \A v \in Values :
               /\ AllReleased(Destructor(EmplaceBack(World(0, "noop"), "a", v), "a"))
               /\ \A i \in 0..Size("a") :
                      AllReleased(Destructor(Emplace(World(0, "noop"), "a", i, v), "a"))

\* Where C20 fails: an Insert with room returns, a is destroyed, and the
\* element allocated on the heap is still allocated.
C20_HeapElementKept ==
    /\ ~crashed /\ vec["a"].alive /\ WellFormed("a")
    /\ Size("a") >= 1 /\ Size("a") < Capacity("a")
    /\ Ok(Emplace(World(0, "noop"), "a", 0, DefaultVal))
    /\ Destructor(Emplace(World(0, "noop"), "a", 0, DefaultVal), "a").heapElem = "raw"
    /\ \A b \in BlockIds :
           Destructor(Emplace(World(0, "noop"), "a", 0, DefaultVal), "a").mem[b] = <<>>

====
